---------------------------- MODULE Spec2Model ----------------------------
(***************************************************************************)
(* Shannon-Fano compressor of src/Main.py.                                 *)
(*                                                                         *)
(* Representation.  A character is its code point (ord), a Python str of   *)
(* '0'/'1' is a sequence over {0, 1}, a bytes object is a sequence over    *)
(* 0..255.  A Node object is the tuple <<freq, char, left, right>>, the    *)
(* Python None in a child slot is the empty tuple and in the char slot is  *)
(* NoChar.  A dict is the sequence of its (key, value) items in insertion  *)
(* order (frequency) or a function on its key set (codebook).  A call that *)
(* may raise returns a record [err, val]; err = "none" means it returned.  *)
(***************************************************************************)
EXTENDS Integers, Sequences, FiniteSets, TLC

VARIABLES
    pc,                  \* position in the running operation
    text,                \* encode_file: text
    frequency,           \* encode_file: frequency
    tree,                \* encode_file: tree
    codebook,            \* encode_file: codebook
    encoded_bit_string,  \* encode_file: encoded_bit_string
    encoded_bits,        \* encode_file: encoded_bits
    tree_bits,           \* encode_file: tree_bits
    file,                \* content of the encoded file, NoFile when it was never written
    loaded,              \* decode_file: (tree_bits, encoded_bits) returned by load_encoded_file
    dtree,               \* decode_file: tree
    dbits,               \* decode_file: encoded_bit_string
    decoded_text,        \* decode_file: decoded_text, as written to the output file
    split,               \* result of _split_index_by_balance on the sorted pairs, None before the call
    error                \* name of the exception that ended the operation, "none" otherwise

vars == <<pc, text, frequency, tree, codebook, encoded_bit_string,
          encoded_bits, tree_bits, file, loaded, dtree, dbits, decoded_text, split, error>>

-----------------------------------------------------------------------------
(* Bounds *)

MaxLen == 4        \* longest input text
TextSyms == 3      \* distinct characters available to an input text
MaxSyms == 6       \* most symbols in a directly drawn frequency table
MaxCount == 4      \* largest count in a directly drawn frequency table
MaxBits == 9       \* longest bit string handed to the bit packer
MaxTreeSyms == 4   \* most symbols in a table whose tree is serialized and read back

Sym(i) == 64 + i   \* 'A', 'B', ...

Alphabet == {Sym(i) : i \in 1..TextSyms}

-----------------------------------------------------------------------------
(* Node, lines 5-10 *)

None == <<>>
NoChar == -1

Node(freq, char, left, right) == <<freq, char, left, right>>

Char(n) == n[2]
Left(n) == n[3]
Right(n) == n[4]

Ok(v) == [err |-> "none", val |-> v]
Raise(e) == [err |-> e, val |-> <<>>]

Min(a, b) == IF a < b THEN a ELSE b
Max(a, b) == IF a > b THEN a ELSE b
Abs(x) == IF x < 0 THEN -x ELSE x

\* Python slices s[:k] and s[k:] for 0 <= k
Take(s, k) == SubSeq(s, 1, Min(k, Len(s)))
Drop(s, k) == SubSeq(s, k + 1, Len(s))

-----------------------------------------------------------------------------
(* build_frequency_table, lines 15-19 *)

HasKey(items, k) == \E j \in 1..Len(items) : items[j][1] = k

\* frequency[char] += 1 on a defaultdict(int): a new key is appended, an
\* existing key keeps its position
Increment(items, k) ==
    IF HasKey(items, k)
    THEN [j \in 1..Len(items) |->
             IF items[j][1] = k THEN <<k, items[j][2] + 1>> ELSE items[j]]
    ELSE Append(items, <<k, 1>>)

RECURSIVE CountLoop(_, _)
CountLoop(t, items) ==
    IF t = <<>> THEN items
    ELSE CountLoop(Tail(t), Increment(items, Head(t)))

build_frequency_table(t) == CountLoop(t, <<>>)

-----------------------------------------------------------------------------
(* _split_index_by_balance, lines 22-35 *)

RECURSIVE SumFreq(_)
SumFreq(pairs) ==
    IF pairs = <<>> THEN 0 ELSE pairs[1][2] + SumFreq(Tail(pairs))

Inf == -1   \* float('inf'): no difference has been recorded yet

\* abs(total/2 - running) is kept doubled, abs(total - 2*running), which
\* orders the same way and stays in the integers
Diff2(total, running) == Abs(total - 2 * running)

\* "<=" in place of "<": the last of several equal differences wins
BetterOrEqual(diff, best_diff) == best_diff = Inf \/ diff <= best_diff

\* the comparison dropped: best_i follows i to the last index
BetterAlways(diff, best_diff) == TRUE

Better(diff, best_diff) == best_diff = Inf \/ diff < best_diff

RECURSIVE SplitLoop(_, _, _, _, _, _)
SplitLoop(pairs, total, i, running, best_i, best_diff) ==
    IF i >= Len(pairs) THEN best_i
    ELSE LET r == running + pairs[i][2]
             d == Diff2(total, r)
         IN  IF Better(d, best_diff)
             THEN SplitLoop(pairs, total, i + 1, r, i, d)
             ELSE SplitLoop(pairs, total, i + 1, r, best_i, best_diff)

split_index_by_balance(pairs) ==
    IF pairs = <<>> THEN 0
    ELSE SplitLoop(pairs, SumFreq(pairs), 1, 0, 1, Inf)

-----------------------------------------------------------------------------
(* _build_fano_from_sorted, lines 37-48 *)

RECURSIVE build_fano_from_sorted(_)
build_fano_from_sorted(pairs) ==
    IF pairs = <<>> THEN None
    ELSE IF Len(pairs) = 1 THEN Node(pairs[1][2], pairs[1][1], None, None)
    ELSE LET i == split_index_by_balance(pairs)
         IN  Node(SumFreq(pairs), NoChar,
                  build_fano_from_sorted(Take(pairs, i)),
                  build_fano_from_sorted(Drop(pairs, i)))

(* build_fano_tree, lines 50-54 *)

\* sorted(..., key=lambda kv: kv[1], reverse=True) is stable: items of equal
\* count keep their insertion order
GoesBefore(p, q) == p[2] >= q[2]

RECURSIVE InsertSorted(_, _)
InsertSorted(sorted, p) ==
    IF sorted = <<>> THEN <<p>>
    ELSE IF GoesBefore(Head(sorted), p)
         THEN <<Head(sorted)>> \o InsertSorted(Tail(sorted), p)
         ELSE <<p>> \o sorted

RECURSIVE SortLoop(_, _)
SortLoop(items, sorted) ==
    IF items = <<>> THEN sorted
    ELSE SortLoop(Tail(items), InsertSorted(sorted, Head(items)))

SortedPairs(items) == SortLoop(items, <<>>)

build_fano_tree(items) ==
    LET pairs == SortedPairs(items)
    IN  IF Len(pairs) = 0 THEN None ELSE build_fano_from_sorted(pairs)

-----------------------------------------------------------------------------
(* build_codes_iterative, lines 57-71 *)

EmptyDict == <<>>   \* the function with no keys

Put(d, k, v) == [x \in DOMAIN d \cup {k} |-> IF x = k THEN v ELSE d[x]]

\* prefix or "0"
OrZero(prefix) == IF prefix = <<>> THEN <<0>> ELSE prefix

\* the pushes of one internal node: right first, then left, so that left is
\* popped first; the stack's top is the last element
\* both children pushed with the left edge's bit
PushChildrenSameBit(stack, node, prefix) ==
    LET s1 == IF Right(node) # None
              THEN Append(stack, <<Right(node), Append(prefix, 0)>>) ELSE stack
    IN  IF Left(node) # None
        THEN Append(s1, <<Left(node), Append(prefix, 0)>>) ELSE s1

PushChildren(stack, node, prefix) ==
    LET s1 == IF Right(node) # None
              THEN Append(stack, <<Right(node), Append(prefix, 1)>>) ELSE stack
    IN  IF Left(node) # None
        THEN Append(s1, <<Left(node), Append(prefix, 0)>>) ELSE s1

RECURSIVE CodesLoop(_, _)
CodesLoop(stack, book) ==
    IF stack = <<>> THEN book
    ELSE LET node == stack[Len(stack)][1]
             prefix == stack[Len(stack)][2]
             rest == SubSeq(stack, 1, Len(stack) - 1)
         IN  IF Char(node) # NoChar
             THEN CodesLoop(rest, Put(book, Char(node), OrZero(prefix)))
             ELSE CodesLoop(PushChildren(rest, node, prefix), book)

build_codes_iterative(root) ==
    IF root = None THEN EmptyDict ELSE CodesLoop(<<<<root, <<>>>>>>, EmptyDict)

-----------------------------------------------------------------------------
(* encode, lines 73-74 *)

RECURSIVE EncodeLoop(_, _, _)
EncodeLoop(t, book, out) ==
    IF t = <<>> THEN Ok(out)
    ELSE IF Head(t) \notin DOMAIN book THEN Raise("KeyError")
    ELSE EncodeLoop(Tail(t), book, out \o book[Head(t)])

encode(t, book) == EncodeLoop(t, book, <<>>)

(* decode, lines 76-84 *)

\* node.left if bit == '0' else node.right
Step(node, bit) == IF bit = 0 THEN Left(node) ELSE Right(node)

\* what decode does once the bits are exhausted: line 84 returns the
\* characters decoded so far, wherever the cursor stands
AtEnd(node, root, decoded) == Ok(decoded)

RECURSIVE DecodeLoop(_, _, _, _)
DecodeLoop(bits, root, node, decoded) ==
    IF bits = <<>> THEN AtEnd(node, root, decoded)
    ELSE LET nxt == Step(node, Head(bits))
         IN  IF nxt = None THEN Raise("AttributeError")   \* None.char
             ELSE IF Char(nxt) # NoChar
                  THEN DecodeLoop(Tail(bits), root, root, Append(decoded, Char(nxt)))
                  ELSE DecodeLoop(Tail(bits), root, nxt, decoded)

decode(bits, root) == DecodeLoop(bits, root, root, <<>>)

-----------------------------------------------------------------------------
(* bit_string_to_bytes, lines 140-147 *)

Zeros(n) == [j \in 1..n |-> 0]

\* int(byte, 2)
RECURSIVE BitsToInt(_)
BitsToInt(bits) ==
    IF bits = <<>> THEN 0
    ELSE 2 * BitsToInt(SubSeq(bits, 1, Len(bits) - 1)) + bits[Len(bits)]

\* the binary digits of n, most significant first; "0" for 0
RECURSIVE Bin(_)
Bin(n) == IF n < 2 THEN <<n>> ELSE Append(Bin(n \div 2), n % 2)

\* format(n, '08b') and f'{n:08b}': zero-filled to a width of at least 8
Format08b(n) == Zeros(Max(0, 8 - Len(Bin(n)))) \o Bin(n)

\* the outer "% 8" dropped: a whole byte of padding on a multiple of 8
PaddingNoWrap(s) == 8 - (Len(s) % 8)

Padding(s) == (8 - (Len(s) % 8)) % 8

RECURSIVE PackLoop(_)
PackLoop(s) ==
    IF s = <<>> THEN <<>>
    ELSE <<BitsToInt(Take(s, 8))>> \o PackLoop(Drop(s, 8))

bit_string_to_bytes(s) == <<Padding(s)>> \o PackLoop(s \o Zeros(Padding(s)))

(* bytes_to_bit_string, lines 149-154 *)

RECURSIVE JoinBytes(_)
JoinBytes(b) ==
    IF b = <<>> THEN <<>> ELSE Format08b(Head(b)) \o JoinBytes(Tail(b))

\* bit_string[:-padding] when padding > 0
StripPadding(bit_string, padding) ==
    IF padding > 0 THEN Take(bit_string, Max(0, Len(bit_string) - padding))
    ELSE bit_string

bytes_to_bit_string(b) ==
    IF b = <<>> THEN Raise("IndexError")   \* b[0]
    ELSE Ok(StripPadding(JoinBytes(Tail(b)), b[1]))

-----------------------------------------------------------------------------
(* serialize_tree_iterative, lines 86-102 *)

LeafBits(node) == <<1>> \o Format08b(Char(node))

\* left pushed before right: the right subtree is emitted first
PushNodesLeftFirst(stack, node) ==
    LET s1 == IF Left(node) # None THEN Append(stack, Left(node)) ELSE stack
    IN  IF Right(node) # None THEN Append(s1, Right(node)) ELSE s1

PushNodes(stack, node) ==
    LET s1 == IF Right(node) # None THEN Append(stack, Right(node)) ELSE stack
    IN  IF Left(node) # None THEN Append(s1, Left(node)) ELSE s1

RECURSIVE SerializeLoop(_, _)
SerializeLoop(stack, bits) ==
    IF stack = <<>> THEN Ok(bits)
    ELSE LET node == stack[Len(stack)]
             rest == SubSeq(stack, 1, Len(stack) - 1)
         IN  IF node = None THEN Raise("AttributeError")   \* None.char
             ELSE IF Char(node) # NoChar
                  THEN SerializeLoop(rest, bits \o LeafBits(node))
                  ELSE SerializeLoop(PushNodes(rest, node), Append(bits, 0))

\* the bit string joined at line 101
TreeBitString(root) == SerializeLoop(<<root>>, <<>>)

serialize_tree_iterative(root) ==
    LET r == TreeBitString(root)
    IN  IF r.err # "none" THEN r ELSE Ok(bit_string_to_bytes(r.val))

-----------------------------------------------------------------------------
(* deserialize_tree_iterative, lines 104-138 *)

\* The nodes made while reading are objects that the stack and their parents
\* refer to and that are filled in later.  They live in a heap, a sequence
\* of [char, left, right] whose child slots hold heap indices, 0 for None.
NullRef == 0

HeapNode(char) == [char |-> char, left |-> NullRef, right |-> NullRef]

\* the object graph below reference r as a Node value; every node here has freq 0
RECURSIVE Materialize(_, _)
Materialize(heap, r) ==
    IF r = NullRef THEN None
    ELSE Node(0, heap[r].char,
              Materialize(heap, heap[r].left), Materialize(heap, heap[r].right))

\* lines 115-123 and 126-134: the new node r becomes the root when the stack
\* is empty, else fills the first free slot of the node on top of the stack,
\* which is popped once its right slot is filled
Attach(st, r) ==
    IF st.stack = <<>> THEN [st EXCEPT !.root = r]
    ELSE LET parent == st.stack[Len(st.stack)]
         IN  IF st.heap[parent].left = NullRef
             THEN [st EXCEPT !.heap[parent].left = r]
             ELSE IF st.heap[parent].right = NullRef
             THEN [st EXCEPT !.heap[parent].right = r,
                             !.stack = SubSeq(st.stack, 1, Len(st.stack) - 1)]
             ELSE st

AddLeaf(st, char) ==
    Attach([st EXCEPT !.heap = Append(st.heap, HeapNode(char))], Len(st.heap) + 1)

AddInternal(st) ==
    LET r == Len(st.heap) + 1
        attached == Attach([st EXCEPT !.heap = Append(st.heap, HeapNode(NoChar))], r)
    IN  [attached EXCEPT !.stack = Append(attached.stack, r)]

\* line 136: the StopIteration of next(it) at line 111 ends the loop
Exhausted(st) == Ok(Materialize(st.heap, st.root))

\* line 113 with fewer than 8 bits left: next(it) raises StopIteration inside
\* the generator expression.  With gs (PEP 479 in force, Python >= 3.7) that
\* is a RuntimeError, which line 136 does not catch.  Without it (Python 3.6)
\* it ends the generator: the bits that were left are the whole of
\* char_bits, and int() raises ValueError on an empty string.
RECURSIVE DeserLoop(_, _, _)
DeserLoop(bits, st, gs) ==
    IF bits = <<>> THEN Exhausted(st)
    ELSE LET rest == Tail(bits)
         IN  IF Head(bits) = 1
             THEN IF Len(rest) >= 8
                  THEN DeserLoop(Drop(rest, 8), AddLeaf(st, BitsToInt(Take(rest, 8))), gs)
                  ELSE IF gs THEN Raise("RuntimeError")
                  ELSE IF rest = <<>> THEN Raise("ValueError")
                  ELSE DeserLoop(<<>>, AddLeaf(st, BitsToInt(rest)), gs)
             ELSE DeserLoop(rest, AddInternal(st), gs)

DeserInit == [heap |-> <<>>, stack |-> <<>>, root |-> NullRef]

\* the tree built from the bit string of line 105
TreeFromBits(bit_string, gs) == DeserLoop(bit_string, DeserInit, gs)

deserialize_tree_iterative(bit_bytes, gs) ==
    LET b == bytes_to_bit_string(bit_bytes)
    IN  IF b.err # "none" THEN b ELSE TreeFromBits(b.val, gs)

-----------------------------------------------------------------------------
(* save_encoded_file, lines 156-161, and load_encoded_file, lines 163-171 *)

\* struct.pack('>I', n) and struct.unpack('>I', b)[0]
PackU32(n) ==
    <<(n \div 16777216) % 256, (n \div 65536) % 256, (n \div 256) % 256, n % 256>>

UnpackU32(b) == ((b[1] * 256 + b[2]) * 256 + b[3]) * 256 + b[4]

save_encoded_file(payload, tree_bytes) ==
    PackU32(Len(tree_bytes)) \o tree_bytes \o payload

\* f.read(n) returns the bytes that are there, at most n of them
load_encoded_file(f) ==
    IF Len(Take(f, 4)) < 4 THEN Raise("ValueError")
    ELSE LET tree_length == UnpackU32(Take(f, 4))
             body == Drop(f, 4)
         IN  Ok(<<Take(body, tree_length), Drop(body, tree_length)>>)

-----------------------------------------------------------------------------
(* State *)

NoFile == <<-1>>     \* the encoded file does not exist
NoText == <<-1>>     \* no output was written

\* a text of n characters, a bit string of n bits
TextsOfLen(n) == [1..n -> Alphabet]
BitStringsOfLen(n) == [1..n -> {0, 1}]

\* the table build_frequency_table returns for a text whose characters first
\* appear in alphabetical order and occur counts[1], counts[2], ... times
TableOf(counts) == [j \in 1..Len(counts) |-> <<Sym(j), counts[j]>>]

\* nothing has run yet
Fresh ==
    /\ tree = None
    /\ codebook = EmptyDict
    /\ encoded_bits = <<>>
    /\ tree_bits = <<>>
    /\ file = NoFile
    /\ loaded = <<>>
    /\ dtree = None
    /\ dbits = <<>>
    /\ decoded_text = NoText
    /\ split = None
    /\ error = "none"

-----------------------------------------------------------------------------
(* encode_file, lines 197-209 *)

E_Frequency ==
    /\ pc = "frequency"
    /\ frequency' = build_frequency_table(text)
    /\ pc' = "tree"
    /\ UNCHANGED <<text, tree, codebook, encoded_bit_string, encoded_bits, tree_bits,
                   file, loaded, dtree, dbits, decoded_text, split, error>>

\* lines 201-204: an empty input ends encode_file without an output file
E_Tree ==
    /\ pc = "tree"
    /\ tree' = build_fano_tree(frequency)
    /\ pc' = IF tree' = None THEN "encode_empty" ELSE "codes"
    /\ UNCHANGED <<text, frequency, codebook, encoded_bit_string, encoded_bits,
                   tree_bits, file, loaded, dtree, dbits, decoded_text, split, error>>

E_Codes ==
    /\ pc = "codes"
    /\ codebook' = build_codes_iterative(tree)
    /\ pc' = "encode"
    /\ UNCHANGED <<text, frequency, tree, encoded_bit_string, encoded_bits, tree_bits,
                   file, loaded, dtree, dbits, decoded_text, split, error>>

E_Encode ==
    /\ pc = "encode"
    /\ LET r == encode(text, codebook)
       IN  /\ encoded_bit_string' = r.val
           /\ error' = r.err
           /\ pc' = IF r.err = "none" THEN "pack" ELSE "failed"
    /\ UNCHANGED <<text, frequency, tree, codebook, encoded_bits, tree_bits, file,
                   loaded, dtree, dbits, decoded_text, split>>

E_Pack ==
    /\ pc = "pack"
    /\ encoded_bits' = bit_string_to_bytes(encoded_bit_string)
    /\ pc' = "serialize"
    /\ UNCHANGED <<text, frequency, tree, codebook, encoded_bit_string, tree_bits,
                   file, loaded, dtree, dbits, decoded_text, split, error>>

E_Serialize ==
    /\ pc = "serialize"
    /\ LET r == serialize_tree_iterative(tree)
       IN  /\ tree_bits' = r.val
           /\ error' = r.err
           /\ pc' = IF r.err = "none" THEN "save" ELSE "failed"
    /\ UNCHANGED <<text, frequency, tree, codebook, encoded_bit_string, encoded_bits,
                   file, loaded, dtree, dbits, decoded_text, split>>

E_Save ==
    /\ pc = "save"
    /\ file' = save_encoded_file(encoded_bits, tree_bits)
    /\ pc' = "load"
    /\ UNCHANGED <<text, frequency, tree, codebook, encoded_bit_string, encoded_bits,
                   tree_bits, loaded, dtree, dbits, decoded_text, split, error>>

\* the stored file loses its tail before it is read back
Truncate ==
    /\ pc = "load"
    /\ \E k \in 0..(Len(file) - 1) : file' = Take(file, k)
    /\ UNCHANGED <<pc, text, frequency, tree, codebook, encoded_bit_string,
                   encoded_bits, tree_bits, loaded, dtree, dbits, decoded_text, split,
                   error>>

-----------------------------------------------------------------------------
(* decode_file, lines 216-228 *)

D_Load ==
    /\ pc = "load"
    /\ LET r == load_encoded_file(file)
       IN  /\ loaded' = r.val
           /\ error' = r.err
           /\ pc' = IF r.err = "none" THEN "deserialize" ELSE "failed"
    /\ UNCHANGED <<text, frequency, tree, codebook, encoded_bit_string, encoded_bits,
                   tree_bits, file, dtree, dbits, decoded_text, split>>

\* lines 218-221: a None tree ends decode_file without an output file
D_Deserialize ==
    /\ pc = "deserialize"
    /\ \E gs \in BOOLEAN :
          LET r == deserialize_tree_iterative(loaded[1], gs)
          IN  /\ dtree' = r.val
              /\ error' = r.err
              /\ pc' = IF r.err # "none" THEN "failed"
                       ELSE IF r.val = None THEN "decode_empty" ELSE "unpack"
    /\ UNCHANGED <<text, frequency, tree, codebook, encoded_bit_string, encoded_bits,
                   tree_bits, file, loaded, dbits, decoded_text, split>>

D_Unpack ==
    /\ pc = "unpack"
    /\ LET r == bytes_to_bit_string(loaded[2])
       IN  /\ dbits' = r.val
           /\ error' = r.err
           /\ pc' = IF r.err = "none" THEN "decode" ELSE "failed"
    /\ UNCHANGED <<text, frequency, tree, codebook, encoded_bit_string, encoded_bits,
                   tree_bits, file, loaded, dtree, decoded_text, split>>

\* lines 226-228: decode, then the output file is written
D_Decode ==
    /\ pc = "decode"
    /\ LET r == decode(dbits, dtree)
       IN  /\ decoded_text' = IF r.err = "none" THEN r.val ELSE NoText
           /\ error' = r.err
           /\ pc' = IF r.err = "none" THEN "done" ELSE "failed"
    /\ UNCHANGED <<text, frequency, tree, codebook, encoded_bit_string, encoded_bits,
                   tree_bits, file, loaded, dtree, dbits, split>>

\* encode_file on a text, then decode_file on the file it wrote, which may
\* have been cut short in between
Init ==
    /\ pc = "frequency"
    /\ \E n \in 0..MaxLen : text \in TextsOfLen(n)
    /\ frequency = <<>>
    /\ encoded_bit_string = <<>>
    /\ Fresh

Next ==
    \/ E_Frequency
    \/ E_Tree
    \/ E_Codes
    \/ E_Encode
    \/ E_Pack
    \/ E_Serialize
    \/ E_Save
    \/ Truncate
    \/ D_Load
    \/ D_Deserialize
    \/ D_Unpack
    \/ D_Decode

Spec == Init /\ [][Next]_vars

-----------------------------------------------------------------------------
(* The code construction on a frequency table: _split_index_by_balance,     *)
(* build_fano_tree, build_codes_iterative, then the tree through            *)
(* serialize_tree_iterative and deserialize_tree_iterative                  *)

T_Split ==
    /\ pc = "t_split"
    /\ split' = split_index_by_balance(SortedPairs(frequency))
    /\ pc' = "t_tree"
    /\ UNCHANGED <<text, frequency, tree, codebook, encoded_bit_string, encoded_bits,
                   tree_bits, file, loaded, dtree, dbits, decoded_text, error>>

T_Tree ==
    /\ pc = "t_tree"
    /\ tree' = build_fano_tree(frequency)
    /\ pc' = "t_codes"
    /\ UNCHANGED <<text, frequency, codebook, encoded_bit_string, encoded_bits,
                   tree_bits, file, loaded, dtree, dbits, decoded_text, split, error>>

T_Codes ==
    /\ pc = "t_codes"
    /\ codebook' = build_codes_iterative(tree)
    /\ pc' = "t_serialize"
    /\ UNCHANGED <<text, frequency, tree, encoded_bit_string, encoded_bits, tree_bits,
                   file, loaded, dtree, dbits, decoded_text, split, error>>

T_Serialize ==
    /\ pc = "t_serialize"
    /\ LET r == serialize_tree_iterative(tree)
       IN  /\ tree_bits' = r.val
           /\ error' = r.err
           /\ pc' = IF r.err = "none" THEN "t_deserialize" ELSE "failed"
    /\ UNCHANGED <<text, frequency, tree, codebook, encoded_bit_string, encoded_bits,
                   file, loaded, dtree, dbits, decoded_text, split>>

T_Deserialize ==
    /\ pc = "t_deserialize"
    /\ \E gs \in BOOLEAN :
          LET r == deserialize_tree_iterative(tree_bits, gs)
          IN  /\ dtree' = r.val
              /\ error' = r.err
              /\ pc' = IF r.err = "none" THEN "t_done" ELSE "failed"
    /\ UNCHANGED <<text, frequency, tree, codebook, encoded_bit_string, encoded_bits,
                   tree_bits, file, loaded, dbits, decoded_text, split>>

\* the table is the input; no text is read
InitTable ==
    /\ pc = "t_split"
    /\ text = <<>>
    /\ \E n \in 1..MaxSyms : \E counts \in [1..n -> 1..MaxCount] :
          frequency = TableOf(counts)
    /\ encoded_bit_string = <<>>
    /\ Fresh

NextTable == T_Split \/ T_Tree \/ T_Codes

SpecTable == InitTable /\ [][NextTable]_vars

InitTreeIO ==
    /\ pc = "t_split"
    /\ text = <<>>
    /\ \E n \in 1..MaxTreeSyms : \E counts \in [1..n -> 1..MaxCount] :
          frequency = TableOf(counts)
    /\ encoded_bit_string = <<>>
    /\ Fresh

NextTreeIO == T_Split \/ T_Tree \/ T_Codes \/ T_Serialize \/ T_Deserialize

SpecTreeIO == InitTreeIO /\ [][NextTreeIO]_vars

-----------------------------------------------------------------------------
(* The bit packer on a bit string: bit_string_to_bytes, bytes_to_bit_string *)

P_Pack ==
    /\ pc = "p_pack"
    /\ encoded_bits' = bit_string_to_bytes(encoded_bit_string)
    /\ pc' = "p_unpack"
    /\ UNCHANGED <<text, frequency, tree, codebook, encoded_bit_string, tree_bits,
                   file, loaded, dtree, dbits, decoded_text, split, error>>

P_Unpack ==
    /\ pc = "p_unpack"
    /\ LET r == bytes_to_bit_string(encoded_bits)
       IN  /\ dbits' = r.val
           /\ error' = r.err
           /\ pc' = IF r.err = "none" THEN "p_done" ELSE "failed"
    /\ UNCHANGED <<text, frequency, tree, codebook, encoded_bit_string, encoded_bits,
                   tree_bits, file, loaded, dtree, decoded_text, split>>

InitPack ==
    /\ pc = "p_pack"
    /\ text = <<>>
    /\ frequency = <<>>
    /\ \E n \in 0..MaxBits : encoded_bit_string \in BitStringsOfLen(n)
    /\ Fresh

NextPack == P_Pack \/ P_Unpack

SpecPack == InitPack /\ [][NextPack]_vars

-----------------------------------------------------------------------------
(* decode on a bit sequence that stops short: the encoding of a text, cut  *)
(* after any number of bits, decoded with the text's own tree              *)

X_Cut ==
    /\ pc = "pack"
    /\ \E k \in 0..Len(encoded_bit_string) : dbits' = Take(encoded_bit_string, k)
    /\ dtree' = tree
    /\ pc' = "x_decode"
    /\ UNCHANGED <<text, frequency, tree, codebook, encoded_bit_string, encoded_bits,
                   tree_bits, file, loaded, decoded_text, split, error>>

X_Decode ==
    /\ pc = "x_decode"
    /\ LET r == decode(dbits, dtree)
       IN  /\ decoded_text' = IF r.err = "none" THEN r.val ELSE NoText
           /\ error' = r.err
           /\ pc' = IF r.err = "none" THEN "x_done" ELSE "failed"
    /\ UNCHANGED <<text, frequency, tree, codebook, encoded_bit_string, encoded_bits,
                   tree_bits, file, loaded, dtree, dbits, split>>

NextDecode == E_Frequency \/ E_Tree \/ E_Codes \/ E_Encode \/ X_Cut \/ X_Decode

SpecDecode == Init /\ [][NextDecode]_vars

-----------------------------------------------------------------------------
(* deserialize_tree_iterative on a tree stream that stops short: the       *)
(* serialization of a text's tree, cut after any number of bits and packed *)
(* again                                                                   *)

Y_Cut ==
    /\ pc = "save"
    /\ \E k \in 0..Len(TreeBitString(tree).val) :
          tree_bits' = bit_string_to_bytes(Take(TreeBitString(tree).val, k))
    /\ pc' = "y_deserialize"
    /\ UNCHANGED <<text, frequency, tree, codebook, encoded_bit_string, encoded_bits,
                   file, loaded, dtree, dbits, decoded_text, split, error>>

Y_Deserialize ==
    /\ pc = "y_deserialize"
    /\ \E gs \in BOOLEAN :
          LET r == deserialize_tree_iterative(tree_bits, gs)
          IN  /\ dtree' = r.val
              /\ error' = r.err
              /\ pc' = IF r.err = "none" THEN "y_done" ELSE "failed"
    /\ UNCHANGED <<text, frequency, tree, codebook, encoded_bit_string, encoded_bits,
                   tree_bits, file, loaded, dbits, decoded_text, split>>

NextDeser ==
    \/ E_Frequency
    \/ E_Tree
    \/ E_Codes
    \/ E_Encode
    \/ E_Pack
    \/ E_Serialize
    \/ Y_Cut
    \/ Y_Deserialize

SpecDeser == Init /\ [][NextDeser]_vars

-----------------------------------------------------------------------------
(* Properties of the code construction, under SpecTable *)

Keys(items) == {items[j][1] : j \in 1..Len(items)}

\* the count the table holds for key k
CountOf(items, k) == LET j == CHOOSE j \in 1..Len(items) : items[j][1] = k IN items[j][2]

IsPrefix(u, v) == Len(u) <= Len(v) /\ SubSeq(v, 1, Len(u)) = u

CodesBuilt == pc = "t_serialize"

\* C2: the code table of a non-empty frequency table has one non-empty
\* codeword for each symbol of the table, and no codeword of one symbol is a
\* prefix of the codeword of another symbol.
PrefixFree ==
    CodesBuilt =>
        /\ DOMAIN codebook = Keys(frequency)
        /\ \A a \in DOMAIN codebook : codebook[a] # <<>>
        /\ \A a, b \in DOMAIN codebook :
              a # b => ~IsPrefix(codebook[a], codebook[b])

\* a table of at least three symbols whose codewords differ in length
PrefixFreeWitness ==
    /\ CodesBuilt
    /\ Len(frequency) >= 3
    /\ \E a, b \in DOMAIN codebook : Len(codebook[a]) < Len(codebook[b])

Monotone ==
    \A a, b \in DOMAIN codebook :
        CountOf(frequency, a) > CountOf(frequency, b)
            => Len(codebook[a]) <= Len(codebook[b])

\* C9 as stated: in the code table of every non-empty frequency table, a
\* symbol of strictly higher frequency has a codeword no longer than that of
\* a symbol of strictly lower frequency.
MonotoneAlways == CodesBuilt => Monotone

\* C9 as amended: the same, for frequency tables of at most 5 symbols.
MonotoneUpToFive == (CodesBuilt /\ Len(frequency) <= 5) => Monotone

\* a table of 5 symbols in which a more frequent symbol has a strictly
\* shorter codeword
MonotoneWitness ==
    /\ CodesBuilt
    /\ Len(frequency) = 5
    /\ \E a, b \in DOMAIN codebook :
          /\ CountOf(frequency, a) > CountOf(frequency, b)
          /\ Len(codebook[a]) < Len(codebook[b])

SplitDone == pc \in {"t_tree", "t_codes", "t_serialize"}

\* |total/2 - sum of the first i weights|, doubled
Imbalance(pairs, i) == Abs(SumFreq(pairs) - 2 * SumFreq(Take(pairs, i)))

\* C10: on n >= 2 pairs sorted by descending weight the split index i has
\* 1 <= i <= n-1, no index of 1..n-1 has a smaller |total/2 - sum of the
\* first i weights|, every smaller index has a strictly larger one, and two
\* pairs split 1/1.
SplitIsLeftmostBalanced ==
    (SplitDone /\ Len(frequency) >= 2) =>
        LET pairs == SortedPairs(frequency)
            n == Len(pairs)
        IN  /\ split \in 1..(n - 1)
            /\ \A i \in 1..(n - 1) : Imbalance(pairs, split) <= Imbalance(pairs, i)
            /\ \A i \in 1..(split - 1) : Imbalance(pairs, split) < Imbalance(pairs, i)
            /\ n = 2 => split = 1

\* a list on which a later index ties with the chosen one, which is neither
\* the first nor the last index
SplitWitness ==
    /\ SplitDone
    /\ LET pairs == SortedPairs(frequency)
       IN  /\ split > 1
           /\ \E i \in (split + 1)..(Len(pairs) - 1) :
                  Imbalance(pairs, i) = Imbalance(pairs, split)

-----------------------------------------------------------------------------
(* Properties of the bit packer, under SpecPack *)

\* C4: unpacking the packed form of a bit string gives the bit string back,
\* the recorded padding count is in 0..7, and the packed bytes spell the bit
\* string followed by exactly that many zero bits.
PackRoundTrip ==
    /\ pc # "failed"
    /\ pc = "p_done" =>
          /\ dbits = encoded_bit_string
          /\ encoded_bits[1] \in 0..7
          /\ JoinBytes(Tail(encoded_bits)) = encoded_bit_string \o Zeros(encoded_bits[1])

\* a bit string of exactly one byte that is not all zeros
PackWitness ==
    /\ pc = "p_done"
    /\ Len(encoded_bit_string) = 8
    /\ \E j \in 1..8 : encoded_bit_string[j] = 1

-----------------------------------------------------------------------------
(* Properties of the tree serialization, under SpecTreeIO *)

\* a tree without its weights: the shape and the leaf symbols
RECURSIVE Shape(_)
Shape(n) ==
    IF n = None THEN None
    ELSE Node(0, Char(n), Shape(Left(n)), Shape(Right(n)))

\* C5: the tree read back from the serialization of a built tree has the
\* shape of the built tree with the same leaf symbols in the same places,
\* and gives the same code table.
TreeRoundTrip ==
    /\ pc # "failed"
    /\ pc = "t_done" =>
          /\ dtree = Shape(tree)
          /\ build_codes_iterative(dtree) = codebook

\* a tree of at least three leaves, so with an internal node below the root
TreeRoundTripWitness ==
    /\ pc = "t_done"
    /\ Len(frequency) >= 3
    /\ dtree # None

-----------------------------------------------------------------------------
(* Properties of encode_file followed by decode_file, under Spec *)

\* the file is as save_encoded_file wrote it
Intact == file = save_encoded_file(encoded_bits, tree_bits)

Ended == pc \in {"encode_empty", "decode_empty", "done", "failed"}

\* C1: once encode_file and decode_file have run on a text, with the file
\* between them untouched, the decoded text is the text.
RoundTrip == (Ended /\ (file = NoFile \/ Intact)) => decoded_text = text

\* the tables of the reorderings of the text: the same (symbol, count) pairs
\* in every order of first appearance
Reorderings(items) ==
    {[j \in 1..Len(items) |-> items[f[j]]] : f \in Permutations(1..Len(items))}

\* C3: every table holding the same (symbol, count) pairs as the text's
\* table, whatever the order in which its symbols first appeared, gives the
\* tree and the code table that the text's table gives.
Deterministic ==
    pc = "encode" =>
        \A q \in Reorderings(frequency) :
            /\ build_fano_tree(q) = tree
            /\ build_codes_iterative(build_fano_tree(q)) = codebook

Loaded == pc \in {"deserialize", "unpack", "decode", "decode_empty", "done", "failed"}

\* the 4-byte length field is there and promises more bytes than follow it
LengthExceedsFile ==
    /\ file # NoFile
    /\ Len(file) >= 4
    /\ UnpackU32(Take(file, 4)) > Len(file) - 4

\* C8: reading a file whose tree-length field exceeds the bytes that follow
\* it fails in load_encoded_file, before the tree is deserialized or the
\* payload decoded.
LengthValidated ==
    (Loaded /\ LengthExceedsFile) =>
        /\ pc = "failed"
        /\ error # "none"
        /\ loaded = <<>>

-----------------------------------------------------------------------------
(* Property of decode on a bit sequence that stops short, under SpecDecode *)

\* the cursor of decode after the last bit; None where decode raised
RECURSIVE Cursor(_, _, _)
Cursor(bits, root, node) ==
    IF bits = <<>> THEN node
    ELSE LET nxt == Step(node, Head(bits))
         IN  IF nxt = None THEN None
             ELSE IF Char(nxt) # NoChar THEN Cursor(Tail(bits), root, root)
             ELSE Cursor(Tail(bits), root, nxt)

\* the bits end inside a codeword
MidCodeword == Cursor(dbits, dtree, dtree) \notin {None, dtree}

\* C6: decode of a bit sequence that ends inside a codeword fails and
\* returns no symbols.
StrictDecode ==
    (pc \in {"x_done", "failed"} /\ MidCodeword) =>
        /\ error # "none"
        /\ decoded_text = NoText

-----------------------------------------------------------------------------
(* Property of deserialize_tree_iterative on a tree stream that stops     *)
(* short, under SpecDeser                                                  *)

\* the stream is cut between two nodes: every leaf tag in it is followed by
\* its 8 symbol bits
RECURSIVE EndsAtNode(_)
EndsAtNode(stream) ==
    IF stream = <<>> THEN TRUE
    ELSE IF Head(stream) = 0 THEN EndsAtNode(Tail(stream))
    ELSE Len(stream) >= 9 /\ EndsAtNode(Drop(stream, 9))

\* the stream holds some but not all bits of the serialization of a tree,
\* cut between two nodes: it ends with an internal node short of a child
CutShort ==
    LET stream == bytes_to_bit_string(tree_bits).val
    IN  /\ 0 < Len(stream)
        /\ Len(stream) < Len(TreeBitString(tree).val)
        /\ EndsAtNode(stream)

\* C7: deserialize_tree_iterative on a stream that ends while an internal
\* node still lacks a child fails instead of returning a tree.  (Where the
\* stream ends inside a leaf's 8 symbol bits the outcome is DeserLoop's, and
\* differs between interpreters.)
CorruptTreeDetected ==
    (pc \in {"y_done", "failed"} /\ CutShort) => error # "none"

=============================================================================
